---------------------------- MODULE Spec2Model ----------------------------
(***************************************************************************)
(* Live audio session manager of the assistant front-end (src/App.tsx,     *)
(* setupLiveChat / stopLiveChat / resetState) and its PCM codec            *)
(* (services/geminiService: createPcmBlob, encode, decode,                 *)
(* decodeAudioData).                                                        *)
(*                                                                         *)
(* Conventions.  A JavaScript string is a sequence of one-character        *)
(* strings.  A float sample s is the integer n with s = n / SampleUnit,    *)
(* SampleUnit = 32768 * SubSteps: every product s * 32768 and every        *)
(* quotient k / 32768 the code forms is then an exact rational n / SubSteps.*)
(* A null reference is Null (0); objects are numbered from 1.              *)
(***************************************************************************)
EXTENDS Integers, Sequences, FiniteSets, TLC

(***************************************************************************)
(* Bounds of the model.                                                    *)
(***************************************************************************)
SubSteps == 2
MaxSamples == 2

(***************************************************************************)
(* Program constants.                                                      *)
(***************************************************************************)
Scale == 32768
InputRate == 16000
OutputRate == 24000
OutputChannels == 1

Null == 0
SampleUnit == Scale * SubSteps

Abs(x) == IF x >= 0 THEN x ELSE -x
Max(a, b) == IF a >= b THEN a ELSE b

(***************************************************************************)
(* PCM codec.                                                              *)
(***************************************************************************)

\* ECMAScript ToInt16 of the real number n / SubSteps, as the assignment
\* int16[i] = data[i] * 32768 performs it: truncate toward zero, then wrap
\* modulo 2^16 into [-32768, 32767].
ToInt16Clamped(n) ==
  LET t == IF n >= 0 THEN n \div SubSteps ELSE -((-n) \div SubSteps)
  IN IF t > 32767 THEN 32767 ELSE IF t < -32768 THEN -32768 ELSE t

ToInt16(n) ==
  LET t == IF n >= 0 THEN n \div SubSteps ELSE -((-n) \div SubSteps)
  IN ((t + 32768) % 65536) - 32768

\* new Uint8Array(int16.buffer): two bytes per element, low byte first.
Int16Bytes(ints) ==
  [i \in 1..(2 * Len(ints)) |->
     LET u == ints[(i + 1) \div 2] % 65536
     IN IF i % 2 = 1 THEN u % 256 ELSE u \div 256]

\* new Int16Array(data.buffer): the inverse view.  Defined for an even
\* number of bytes only (the constructor throws a RangeError otherwise).
BytesInt16(bytes) ==
  [i \in 1..(Len(bytes) \div 2) |->
     LET u == bytes[2 * i - 1] + 256 * bytes[2 * i]
     IN IF u >= 32768 THEN u - 65536 ELSE u]

\* encode: btoa of the byte string.  A base64 text is a sequence of sextet
\* values 0..63, with Pad (64) for '='.
Pad == 64

RECURSIVE encode(_)
encode(bytes) ==
  IF Len(bytes) = 0 THEN <<>>
  ELSE IF Len(bytes) = 1 THEN
    << bytes[1] \div 4, (bytes[1] % 4) * 16, Pad, Pad >>
  ELSE IF Len(bytes) = 2 THEN
    << bytes[1] \div 4, (bytes[1] % 4) * 16 + bytes[2] \div 16,
       (bytes[2] % 16) * 4, Pad >>
  ELSE
    << bytes[1] \div 4, (bytes[1] % 4) * 16 + bytes[2] \div 16,
       (bytes[2] % 16) * 4 + bytes[3] \div 64, bytes[3] % 64 >>
    \o encode(SubSeq(bytes, 4, Len(bytes)))

\* decode: atob, then charCodeAt of every character.
RECURSIVE decode(_)
decode(base64) ==
  IF Len(base64) < 4 THEN <<>>
  ELSE
    LET a == base64[1]
        b == base64[2]
        c == base64[3]
        d == base64[4]
        b1 == a * 4 + b \div 16
        b2 == (b % 16) * 16 + c \div 4
        b3 == (c % 4) * 64 + d
    IN IF c = Pad THEN << b1 >>
       ELSE IF d = Pad THEN << b1, b2 >>
       ELSE << b1, b2, b3 >> \o decode(SubSeq(base64, 5, Len(base64)))

\* createPcmBlob(data, sampleRate).
createPcmBlob(data, sampleRate) ==
  [ data |-> encode(Int16Bytes([i \in 1..Len(data) |-> ToInt16(data[i])])),
    mimeType |-> << "audio/pcm;rate=", sampleRate >> ]

\* decodeAudioData(data, ctx, sampleRate, numChannels): ok = FALSE stands for
\* the RangeError of the Int16Array constructor on an odd byte count.  The
\* buffer holds numChannels channels of frameCount samples, each
\* dataInt16[i * numChannels + channel] / 32768 (here in SampleUnit units).
decodeAudioData(data, sampleRate, numChannels) ==
  IF Len(data) % 2 # 0
  THEN [ ok |-> FALSE, sampleRate |-> sampleRate, channels |-> <<>> ]
  ELSE
    LET dataInt16 == BytesInt16(data)
        frameCount == Len(dataInt16) \div numChannels
    IN [ ok |-> TRUE, sampleRate |-> sampleRate,
         channels |->
           [ch \in 1..numChannels |->
              [i \in 1..frameCount |->
                 dataInt16[(i - 1) * numChannels + ch] * SubSteps]] ]

\* Samples the codec is exercised on: the ends and the middle of [-1, 1].
SampleValues ==
  { -SampleUnit, -SampleUnit + 1, -SubSteps - 1, -1, 0, 1, SubSteps,
    SampleUnit \div 2 + 1, SampleUnit - SubSteps - 1, SampleUnit - 1,
    SampleUnit }

SampleSeqs == UNION { [1..n -> SampleValues] : n \in 0..MaxSamples }

Rates == { InputRate, OutputRate }


(***************************************************************************)
(* Bounds of the session model.                                            *)
(***************************************************************************)
MaxSessions == 2
MaxBlocks == 1

(***************************************************************************)
(* State.                                                                  *)
(***************************************************************************)
VARIABLES
  platform,                     \* navigator.mediaDevices / process.env.API_KEY
  activeTab,                    \* state.activeTab: is the Live Chat tab shown
  loading,                      \* state.loading
  error,                        \* state.error
  isLiveChatActive,
  liveChatInputTranscription,
  liveChatOutputTranscription,
  liveChatHistory,
  liveSessionPromise,           \* ref: session whose promise is held, or Null
  nextStartTime,                \* ref
  outputAudioSources,           \* ref: set of source ids
  inputAudioContext,            \* ref: owner session of the context, or Null
  outputAudioContext,           \* ref
  mediaStreamSource,            \* ref: capture node id, or Null
  scriptProcessorNode,          \* ref
  sessions,                     \* one record per setupLiveChat past its guard
  sources,                      \* every AudioBufferSourceNode started
  captured,                     \* every block handed to onaudioprocess
  decoding,                     \* onmessage calls suspended at the await
  now,                          \* wall clock, in output frames
  last,                         \* the handler that ran last
  env,                          \* the bounds of the run
  codec                         \* the codec round trip (SpecCodec)

vars ==
  << platform, activeTab, loading, error, isLiveChatActive,
     liveChatInputTranscription, liveChatOutputTranscription, liveChatHistory,
     liveSessionPromise, nextStartTime, outputAudioSources, inputAudioContext,
     outputAudioContext, mediaStreamSource, scriptProcessorNode, sessions,
     sources, captured, decoding, now, last, env, codec >>

uiVars == << loading, error, isLiveChatActive >>
textVars ==
  << liveChatInputTranscription, liveChatOutputTranscription, liveChatHistory >>
refVars ==
  << liveSessionPromise, inputAudioContext, outputAudioContext,
     mediaStreamSource, scriptProcessorNode >>
playVars == << nextStartTime, outputAudioSources, sources >>

NoError == << >>
NoMsg == [ inT |-> <<>>, outT |-> <<>>, turnComplete |-> FALSE,
           audio |-> <<>>, interrupted |-> FALSE ]

\* The record of the handler that ran last: its name, the session it belongs
\* to, the exception it ended with ("none" when it returned), the message it
\* handled and the size of the active-source set when it began; torn tells
\* that a close callback has run and no open callback since.
Last(op, s, threw, m, text) ==
  [ op |-> op, s |-> s, threw |-> threw, m |-> m, text |-> text,
    k |-> Cardinality(outputAudioSources),
    torn |-> IF op = "close" THEN TRUE
             ELSE IF op = "open" THEN FALSE
             ELSE last.torn ]

SessionIds == 1..Len(sessions)

\* AudioContext.currentTime of the output context made by session s.
currentTime(s) == now - sessions[s].born

NewSession(capIn, capOut) ==
  [ status |-> "mic", promise |-> "none", opened |-> FALSE,
    chain |-> <<>>, sent |-> <<>>, closeReq |-> 0,
    capIn |-> capIn, capOut |-> capOut, born |-> 0,
    inClosed |-> 0, outClosed |-> 0,
    node |-> "none", nodeCtx |-> Null, spDisc |-> 0, msDisc |-> 0 ]

CodecIdle == [ stage |-> "idle" ]

\* The bounds of a run: sessions started, blocks captured, sources started,
\* clock ticks, characters per accumulator, turns completed.
Bounds(sessions_, blocks_, sources_, time_, text_, turns_) ==
  [ sessions |-> sessions_, blocks |-> blocks_, sources |-> sources_,
    time |-> time_, text |-> text_, turns |-> turns_ ]

Platforms == [ mediaDevices : BOOLEAN, apiKey : BOOLEAN ]
Supported == [ mediaDevices |-> TRUE, apiKey |-> TRUE ]

\* The state after the first render and its effect (resetState on refs and
\* states that hold their initial values).
InitApp ==
  /\ loading = FALSE
  /\ error = NoError
  /\ isLiveChatActive = FALSE
  /\ liveChatInputTranscription = <<>>
  /\ liveChatOutputTranscription = <<>>
  /\ liveChatHistory = <<>>
  /\ liveSessionPromise = Null
  /\ nextStartTime = 0
  /\ outputAudioSources = {}
  /\ inputAudioContext = Null
  /\ outputAudioContext = Null
  /\ mediaStreamSource = Null
  /\ scriptProcessorNode = Null
  /\ sessions = <<>>
  /\ sources = <<>>
  /\ captured = <<>>
  /\ decoding = <<>>
  /\ now = 0
  /\ codec = CodecIdle

\* The state after the user's first click on the Live Chat tab.
InitLive ==
  /\ InitApp
  /\ platform = Supported
  /\ activeTab = "LIVE_CHAT"
  /\ last = [ op |-> "reset", s |-> Null, threw |-> "none", m |-> NoMsg,
              text |-> "", k |-> 0, torn |-> FALSE ]


(***************************************************************************)
(* Helpers of the handlers.                                                *)
(***************************************************************************)

\* promise.then(reaction) on the promise of session record r, and the
\* reactions themselves: session.sendRealtimeInput({media}) and
\* session.close().  A reaction on a resolved promise runs in the microtask
\* that follows the handler, before any other event; on a pending promise it
\* queues behind the earlier ones; on a rejected promise it never runs.
React(r, reaction) ==
  IF reaction.type = "send"
  THEN [r EXCEPT !.sent = Append(@, reaction.media)]
  ELSE [r EXCEPT !.closeReq = @ + 1]

RECURSIVE ReactAll(_, _)
ReactAll(r, chain) ==
  IF chain = <<>> THEN r
  ELSE ReactAll(React(r, Head(chain)), Tail(chain))

Then(r, reaction) ==
  IF r.promise = "resolved" THEN React(r, reaction)
  ELSE IF r.promise = "pending" THEN [r EXCEPT !.chain = Append(@, reaction)]
  ELSE r

\* liveSessionPromise.current.then(session => session.close()) when the ref
\* is set (stopLiveChat, resetState).
CloseHeld(ss) ==
  IF liveSessionPromise # Null
  THEN [ss EXCEPT ![liveSessionPromise] = Then(@, [type |-> "close"])]
  ELSE ss

\* ctx.close() on the contexts the two refs hold.
CloseContextsInputOnly(ss) ==
  [s \in DOMAIN ss |->
     [ss[s] EXCEPT !.inClosed = IF inputAudioContext = s THEN @ + 1 ELSE @]]

CloseContexts(ss) ==
  [s \in DOMAIN ss |->
     [ss[s] EXCEPT
        !.inClosed = IF inputAudioContext = s THEN @ + 1 ELSE @,
        !.outClosed = IF outputAudioContext = s THEN @ + 1 ELSE @]]

\* node.disconnect() on the nodes the refs hold: ms for mediaStreamSource,
\* sp for scriptProcessorNode.  A script processor cut from the destination
\* is processed no more.
DisconnectNodes(ss, ms, sp) ==
  [s \in DOMAIN ss |->
     [ss[s] EXCEPT
        !.msDisc = IF ms /\ mediaStreamSource = s THEN @ + 1 ELSE @,
        !.spDisc = IF sp /\ scriptProcessorNode = s THEN @ + 1 ELSE @,
        !.node = IF sp /\ scriptProcessorNode = s THEN "off" ELSE @]]

\* source.stop() on every source of the set.
StopAll(srcs, set) ==
  [i \in DOMAIN srcs |->
     IF i \in set THEN [srcs[i] EXCEPT !.stops = @ + 1] ELSE srcs[i]]

\* The sources started before a reset of the cursor belong to a span of
\* their own.
Retire(srcs) == [i \in DOMAIN srcs |-> [srcs[i] EXCEPT !.cur = FALSE]]

(***************************************************************************)
(* resetState, run by the effect on state.activeTab (App.tsx 143-191).     *)
(***************************************************************************)
ResetState ==
  /\ liveChatInputTranscription' = <<>>
  /\ liveChatOutputTranscription' = <<>>
  /\ liveChatHistory' = <<>>
  /\ isLiveChatActive' = FALSE
  /\ sessions' = DisconnectNodes(CloseContexts(CloseHeld(sessions)), FALSE, TRUE)
  /\ liveSessionPromise' = Null
  /\ inputAudioContext' = Null
  /\ outputAudioContext' = Null
  /\ mediaStreamSource' = Null
  /\ scriptProcessorNode' = Null
  /\ nextStartTime' = 0
  /\ sources' = Retire(StopAll(sources, outputAudioSources))
  /\ outputAudioSources' = {}
  /\ error' = NoError
  /\ loading' = FALSE

\* A click on a tab: SET_ACTIVE_TAB, then the effect.
TabChange ==
  /\ activeTab' = IF activeTab = "LIVE_CHAT" THEN "TEXT_GENERATION"
                  ELSE "LIVE_CHAT"
  /\ ResetState
  /\ last' = Last("reset", Null, "none", NoMsg, "")
  /\ UNCHANGED << platform, env, captured, decoding, now, codec >>

(***************************************************************************)
(* setupLiveChat (App.tsx 470-608).                                        *)
(***************************************************************************)

\* The button shows "Start" and is enabled (App.tsx 1066-1073).
StartEnabled ==
  /\ activeTab = "LIVE_CHAT"
  /\ ~isLiveChatActive
  /\ ~loading

\* Line 604: the text the catch block puts in the error slot.
SetupErrorSilent(text) == NoError

SetupErrorMessage(text) ==
  << "Failed to access microphone or set up live chat: ", text >>

\* Line 476: the playback cursor a start leaves.
StartCursorKept == nextStartTime

StartCursor == 0

\* Lines 471-486: up to the await of getUserMedia.  The callbacks close over
\* the two transcription states of the render the click came from.
\* Line 475: setLiveChatHistory([]).
StartHistoryKept == liveChatHistory

StartHistory == <<>>

SetupLiveChat ==
  /\ StartEnabled
  /\ liveChatInputTranscription' = <<>>
  /\ liveChatOutputTranscription' = <<>>
  /\ liveChatHistory' = StartHistory
  /\ nextStartTime' = StartCursor
  /\ sources' = Retire(sources)
  /\ isLiveChatActive' = FALSE
  /\ IF ~platform.mediaDevices
     THEN /\ error' = << "Microphone access is not supported in this browser." >>
          /\ loading' = FALSE
          /\ sessions' = sessions
          /\ last' = Last("start", Null, "none", NoMsg, "")
     ELSE IF ~platform.apiKey
     THEN /\ error' = SetupErrorMessage("Gemini API key is not configured.")
          /\ loading' = FALSE
          /\ sessions' = sessions
          /\ last' = Last("start", Null, "caught", NoMsg, "")
     ELSE /\ Len(sessions) < env.sessions
          /\ error' = NoError
          /\ loading' = TRUE
          /\ sessions' = Append(sessions,
               NewSession(liveChatInputTranscription,
                          liveChatOutputTranscription))
          /\ last' = Last("start", Len(sessions) + 1, "none", NoMsg, "")
  /\ UNCHANGED << platform, env, activeTab, refVars, outputAudioSources, captured,
                  decoding, now, codec >>

\* Lines 486-496 and 591-600: getUserMedia resolved; the contexts are made
\* and ai.live.connect is called (not awaited).
MicGranted(s) ==
  /\ s \in SessionIds
  /\ sessions[s].status = "mic"
  /\ inputAudioContext' = s
  /\ outputAudioContext' = s
  /\ liveSessionPromise' = s
  /\ sessions' = [sessions EXCEPT ![s].status = "connecting",
                                  ![s].promise = "pending",
                                  ![s].born = now]
  /\ last' = Last("connect", s, "none", NoMsg, "")
  /\ UNCHANGED << platform, env, activeTab, uiVars, textVars, mediaStreamSource,
                  scriptProcessorNode, playVars, captured, decoding, now,
                  codec >>

\* Lines 601-607: getUserMedia rejected; the catch block.
MicDenied(s) ==
  /\ s \in SessionIds
  /\ sessions[s].status = "mic"
  /\ sessions' = [sessions EXCEPT ![s].status = "failed"]
  /\ error' = SetupErrorMessage("Permission denied")
  /\ loading' = FALSE
  /\ isLiveChatActive' = FALSE
  /\ last' = Last("denied", s, "caught", NoMsg, "")
  /\ UNCHANGED << platform, env, activeTab, textVars, refVars, playVars, captured,
                  decoding, now, codec >>


(***************************************************************************)
(* The callbacks handed to ai.live.connect.                                *)
(***************************************************************************)

\* onopen (App.tsx 499-516).  The non-null assertions on
\* inputAudioContext.current are not checked at run time: on a null ref the
\* handler ends with a TypeError after the two state updates.
OnOpen(s) ==
  /\ s \in SessionIds
  /\ sessions[s].status = "connecting"
  /\ sessions[s].promise = "pending"
  /\ isLiveChatActive' = TRUE
  /\ loading' = FALSE
  /\ IF inputAudioContext = Null
     THEN /\ sessions' = [sessions EXCEPT ![s].status = "open",
                                          ![s].opened = TRUE]
          /\ UNCHANGED << mediaStreamSource, scriptProcessorNode >>
          /\ last' = Last("open", s, "TypeError", NoMsg, "")
     ELSE /\ sessions' = [sessions EXCEPT ![s].status = "open",
                                          ![s].opened = TRUE,
                                          ![s].node = "on",
                                          ![s].nodeCtx = inputAudioContext]
          /\ mediaStreamSource' = s
          /\ scriptProcessorNode' = s
          /\ last' = Last("open", s, "none", NoMsg, "")
  /\ UNCHANGED << platform, env, activeTab, error, textVars, liveSessionPromise,
                  inputAudioContext, outputAudioContext, playVars, captured,
                  decoding, now, codec >>

\* The promise ai.live.connect returned resolves, after the open callback:
\* the queued reactions run in the order they were queued.
Resolve(s) ==
  /\ s \in SessionIds
  /\ sessions[s].promise = "pending"
  /\ sessions[s].opened
  /\ sessions' = [sessions EXCEPT
                    ![s] = [ReactAll(@, @.chain) EXCEPT !.promise = "resolved",
                                                        !.chain = <<>>]]
  /\ last' = Last("resolve", s, "none", NoMsg, "")
  /\ UNCHANGED << platform, env, activeTab, uiVars, textVars, refVars, playVars,
                  captured, decoding, now, codec >>

\* The promise rejects: the connection failed before the open callback.
\* Nothing awaits the promise; the queued reactions are dropped.
Reject(s) ==
  /\ s \in SessionIds
  /\ sessions[s].promise = "pending"
  /\ sessions[s].status = "connecting"
  /\ sessions' = [sessions EXCEPT ![s].promise = "rejected",
                                  ![s].chain = <<>>]
  /\ last' = Last("reject", s, "unhandled rejection", NoMsg, "")
  /\ UNCHANGED << platform, env, activeTab, uiVars, textVars, refVars, playVars,
                  captured, decoding, now, codec >>

\* The capture node made by the open callback of session s is still
\* processed: connected, on a context that was not closed.
NodeLive(s) ==
  /\ sessions[s].node = "on"
  /\ sessions[sessions[s].nodeCtx].inClosed = 0

\* Blocks the microphone delivers.
CaptureBlocks == { << 0 >>, << SampleUnit \div 2 >> }

\* onaudioprocess (App.tsx 507-513) of the node of session s.
OnAudioProcess(s, inputData) ==
  /\ s \in SessionIds
  /\ NodeLive(s)
  /\ Len(captured) < env.blocks
  /\ LET blk == Len(captured) + 1
         threw == IF inputAudioContext = Null \/ liveSessionPromise = Null
                  THEN "TypeError"
                  ELSE IF sessions[liveSessionPromise].promise = "rejected"
                  THEN "unhandled rejection"
                  ELSE "none"
         to == IF threw = "TypeError" THEN Null ELSE liveSessionPromise
         media == [ blk |-> blk, pcm |-> createPcmBlob(inputData, InputRate) ]
     IN /\ captured' = Append(captured, [ node |-> s, to |-> to,
               early |-> (sessions[s].promise = "pending") ])
        /\ sessions' = IF to = Null THEN sessions
                       ELSE [sessions EXCEPT
                               ![to] = Then(@, [type |-> "send",
                                                media |-> media])]
        /\ last' = Last("capture", s, threw, NoMsg, "")
  /\ UNCHANGED << platform, env, activeTab, uiVars, textVars, refVars, playVars,
                  decoding, now, codec >>

\* onaudioprocess when session.sendRealtimeInput throws on the open session
\* (510-512): the reaction chained at 510 fails, the promise that then()
\* returns is rejected and nothing handles it.  There is no catch and no
\* setError on this path, so no state of the component changes.
OnAudioProcessSendFails(s, inputData) ==
  /\ s \in SessionIds
  /\ NodeLive(s)
  /\ Len(captured) < env.blocks
  /\ inputAudioContext # Null
  /\ liveSessionPromise # Null
  /\ sessions[liveSessionPromise].promise = "resolved"
  /\ sessions[liveSessionPromise].status = "open"
  /\ captured' = Append(captured, [ node |-> s, to |-> liveSessionPromise,
                                    early |-> FALSE ])
  /\ last' = Last("capture", s, "send failed", NoMsg, "")
  /\ UNCHANGED << platform, env, activeTab, uiVars, textVars, refVars, playVars,
                  sessions, decoding, now, codec >>

\* onerror (App.tsx 567-573).
ErrorTexts == { "network", "quota" }

\* Line 570: the text put in the error slot.
ErrorMessageBare(message) == << "Live session error" >>

ErrorMessage(message) == << "Live session error: ", message >>

OnError(s, message) ==
  /\ s \in SessionIds
  /\ sessions[s].status \in { "connecting", "open" }
  /\ error' = ErrorMessage(message)
  /\ isLiveChatActive' = FALSE
  /\ loading' = FALSE
  /\ last' = Last("error", s, "none", NoMsg, message)
  /\ UNCHANGED << platform, env, activeTab, textVars, refVars, playVars, sessions,
                  captured, decoding, now, codec >>

\* onclose (App.tsx 574-589).
OnClose(s) ==
  /\ s \in SessionIds
  /\ sessions[s].status \in { "connecting", "open" }
  /\ isLiveChatActive' = FALSE
  /\ loading' = FALSE
  /\ sessions' = [DisconnectNodes(CloseContexts(sessions), TRUE, TRUE)
                    EXCEPT ![s].status = "closed"]
  /\ inputAudioContext' = Null
  /\ outputAudioContext' = Null
  /\ mediaStreamSource' = Null
  /\ scriptProcessorNode' = Null
  /\ sources' = StopAll(sources, outputAudioSources)
  /\ outputAudioSources' = {}
  /\ last' = Last("close", s, "none", NoMsg, "")
  /\ UNCHANGED << platform, env, activeTab, error, textVars, liveSessionPromise,
                  nextStartTime, captured, decoding, now, codec >>

(***************************************************************************)
(* stopLiveChat (App.tsx 610-617).                                         *)
(***************************************************************************)
\* Line 613: the handle a stop leaves.
StopHandleKept == liveSessionPromise

StopHandle == Null

StopLiveChat ==
  /\ sessions' = CloseHeld(sessions)
  /\ liveSessionPromise' = StopHandle
  /\ isLiveChatActive' = FALSE
  /\ loading' = FALSE
  /\ last' = Last("stop", liveSessionPromise, "none", NoMsg, "")
  /\ UNCHANGED << platform, env, activeTab, error, textVars, inputAudioContext,
                  outputAudioContext, mediaStreamSource, scriptProcessorNode,
                  playVars, captured, decoding, now, codec >>

\* The button shows "Stop" (App.tsx 1066-1073).
StopEnabled ==
  /\ activeTab = "LIVE_CHAT"
  /\ isLiveChatActive

StopClick ==
  /\ StopEnabled
  /\ StopLiveChat


(***************************************************************************)
(* onmessage (App.tsx 517-566).                                            *)
(***************************************************************************)

\* Inline audio chunks the server sends, as base64 text: one frame, two
\* frames, and a chunk of three bytes (malformed).  The empty text is falsy:
\* a message with it carries no audio.
Chunks == { encode(<< 0, 0 >>), encode(<< 1, 0, 255, 127 >>),
            encode(<< 1, 2, 3 >>) }
Fragments == { << "a" >>, << "b" >> }

Messages ==
  [ inT : Fragments \cup { <<>> }, outT : Fragments \cup { <<>> },
    turnComplete : BOOLEAN, audio : Chunks \cup { <<>> },
    interrupted : BOOLEAN ]

\* Lines 557-565: stop and delete every source of the set, reset the cursor.
\* Deleting from a Set while iterating over it still visits every element.
InterruptionKeepSet(srcs, set) ==
  [ sources |-> Retire(StopAll(srcs, set)), set |-> set, nextStartTime |-> 0 ]

InterruptionNoStop(srcs, set) ==
  [ sources |-> Retire(srcs), set |-> {}, nextStartTime |-> 0 ]

Interruption(srcs, set) ==
  [ sources |-> Retire(StopAll(srcs, set)), set |-> {}, nextStartTime |-> 0 ]

\* Lines 519-533: the transcription part.  The turn-complete branch appends
\* the two values the callback closed over when setupLiveChat was created.
TurnEntries(s) == << sessions[s].capIn, sessions[s].capOut >>

\* Lines 520 and 523: the functional update prev => prev + text.
AccumulatePrepend(prev, text) == text \o prev

Accumulate(prev, text) == prev \o text

Transcription(s, m) ==
  /\ Len(liveChatOutputTranscription) + Len(m.outT) <= env.text
  /\ Len(liveChatInputTranscription) + Len(m.inT) <= env.text
  /\ m.turnComplete => Len(liveChatHistory) < 2 * env.turns
  /\ liveChatOutputTranscription' =
       IF m.turnComplete THEN <<>>
       ELSE Accumulate(liveChatOutputTranscription, m.outT)
  /\ liveChatInputTranscription' =
       IF m.turnComplete THEN <<>>
       ELSE Accumulate(liveChatInputTranscription, m.inT)
  /\ liveChatHistory' =
       IF m.turnComplete THEN liveChatHistory \o TurnEntries(s)
       ELSE liveChatHistory

\* Line 538: the cursor never lies in the past of the playback clock.
StartAtNow(cursor, clock) == clock

StartAt(cursor, clock) == Max(cursor, clock)

\* Line 537: the audio part runs for a non-empty chunk while the ref holds a
\* playback context.
HasPlaybackUnchecked(audio) == audio # <<>>

HasPlayback(audio) == audio # <<>> /\ outputAudioContext # Null

\* The handlers suspended at the await while the interruption block of
\* another handler runs: the block (557-565) does nothing to them; cut records
\* that their chunks were received before an interruption.
Overtaken(queue) == [i \in DOMAIN queue |-> [queue[i] EXCEPT !.cut = TRUE]]

\* The handler up to its end, or up to the await of decodeAudioData.  Reading
\* currentTime of a null ref (538) is a TypeError that ends the handler.
OnMessage(s, m) ==
  /\ s \in SessionIds
  /\ sessions[s].status = "open"
  /\ Transcription(s, m)
  /\ IF HasPlayback(m.audio) /\ outputAudioContext = Null
     THEN /\ UNCHANGED << playVars, decoding >>
          /\ last' = Last("message", s, "TypeError", m, "")
     ELSE IF HasPlayback(m.audio)
     THEN /\ Len(sources) + Len(decoding) < env.sources
          /\ nextStartTime' =
               StartAt(nextStartTime, currentTime(outputAudioContext))
          /\ decoding' = Append(decoding,
               [ s |-> s, m |-> m, cut |-> FALSE,
                 floor |-> Max(nextStartTime,
                               currentTime(outputAudioContext)),
                 buffer |-> decodeAudioData(decode(m.audio), OutputRate,
                                            OutputChannels) ])
          /\ UNCHANGED << outputAudioSources, sources >>
          /\ last' = Last("await", s, "none", m, "")
     ELSE IF m.interrupted
     THEN LET i == Interruption(sources, outputAudioSources)
          IN /\ sources' = i.sources
             /\ outputAudioSources' = i.set
             /\ nextStartTime' = i.nextStartTime
             /\ decoding' = Overtaken(decoding)
             /\ last' = Last("message", s, "none", m, "")
     ELSE /\ UNCHANGED << playVars, decoding >>
          /\ last' = Last("message", s, "none", m, "")
  /\ UNCHANGED << platform, env, activeTab, uiVars, refVars, sessions, captured,
                  now, codec >>

\* Lines 539-565: the handler resumes after the await, the suspended calls
\* in the order they were suspended.  The source is connected to outputNode,
\* a node of the output context setupLiveChat made for this session.
NewSource(d) ==
  [ s |-> d.s, ctx |-> outputAudioContext, start |-> nextStartTime,
    at |-> currentTime(outputAudioContext),
    floor |-> d.floor,
    dur |-> Len(d.buffer.channels[1]), stops |-> 0, ended |-> FALSE,
    cur |-> TRUE ]

Decoded ==
  /\ decoding # <<>>
  /\ LET d == Head(decoding)
         threw == IF ~d.buffer.ok THEN "RangeError"
                  ELSE IF outputAudioContext = Null THEN "TypeError"
                  ELSE IF outputAudioContext # d.s THEN "InvalidAccessError"
                  ELSE "none"
     IN /\ last' = Last("decoded", d.s, threw, d.m, "")
        /\ decoding' = IF threw = "none" /\ d.m.interrupted
                       THEN Overtaken(Tail(decoding))
                       ELSE Tail(decoding)
        /\ IF threw # "none"
           THEN UNCHANGED playVars
           ELSE LET src == NewSource(d)
                    id == Len(sources) + 1
                    started == Append(sources, src)
                    active == outputAudioSources \cup { id }
                    i == Interruption(started, active)
                IN IF d.m.interrupted
                   THEN /\ sources' = i.sources
                        /\ outputAudioSources' = i.set
                        /\ nextStartTime' = i.nextStartTime
                   ELSE /\ sources' = started
                        /\ outputAudioSources' = active
                        /\ nextStartTime' = src.start + src.dur
  /\ UNCHANGED << platform, env, activeTab, uiVars, textVars, refVars, sessions,
                  captured, now, codec >>

\* Line 549: outputAudioSources.current.delete(source), a no-op for a source
\* the set does not hold.
DeleteToggle(set, i) == IF i \in set THEN set \ { i } ELSE set \cup { i }

Delete(set, i) == set \ { i }

\* The 'ended' listener (lines 548-550): the source played to its end, or
\* was stopped.
Ended(i) ==
  /\ i \in DOMAIN sources
  /\ ~sources[i].ended
  /\ \/ sources[i].stops > 0
     \/ currentTime(sources[i].ctx)
          >= Max(sources[i].start, sources[i].at) + sources[i].dur
  /\ sources' = [sources EXCEPT ![i].ended = TRUE]
  /\ outputAudioSources' = Delete(outputAudioSources, i)
  /\ last' = Last("ended", sources[i].s, "none", NoMsg, "")
  /\ UNCHANGED << platform, env, activeTab, uiVars, textVars, refVars, sessions,
                  nextStartTime, captured, decoding, now, codec >>

\* Time passes.
Tick ==
  /\ now < env.time
  /\ now' = now + 1
  /\ last' = Last("tick", Null, "none", NoMsg, "")
  /\ UNCHANGED << platform, env, activeTab, uiVars, textVars, refVars, playVars,
                  sessions, captured, decoding, codec >>

(***************************************************************************)
(* The session lifecycle controller with the capture pipeline: the user's  *)
(* clicks and the environment's callbacks, on every platform.              *)
(***************************************************************************)
Init ==
  /\ InitApp
  /\ platform \in Platforms
  /\ activeTab = "TEXT_GENERATION"
  /\ last = [ op |-> "init", s |-> Null, threw |-> "none", m |-> NoMsg,
              text |-> "", k |-> 0, torn |-> FALSE ]
  /\ env = Bounds(MaxSessions, MaxBlocks, 0, 0, 0, 0)

Next ==
  \/ TabChange
  \/ SetupLiveChat
  \/ \E s \in SessionIds : MicGranted(s)
  \/ \E s \in SessionIds : MicDenied(s)
  \/ \E s \in SessionIds : OnOpen(s)
  \/ \E s \in SessionIds : Resolve(s)
  \/ \E s \in SessionIds : Reject(s)
  \/ \E s \in SessionIds : OnAudioProcess(s, << 0 >>)
  \/ \E s \in SessionIds, e \in ErrorTexts : OnError(s, e)
  \/ \E s \in SessionIds : OnClose(s)
  \/ StopClick

Spec == Init /\ [][Next]_vars

(***************************************************************************)
(* The turn aggregator: transcription messages over the session lifecycle. *)
(***************************************************************************)
TurnSessions == 2
TurnText == 1
TurnTurns == 2

TurnMessages ==
  { m \in Messages : m.audio = <<>> /\ ~m.interrupted /\ m.outT # << "b" >> }

InitTurn ==
  /\ InitLive
  /\ env = Bounds(TurnSessions, 0, 0, 0, TurnText, TurnTurns)

NextTurn ==
  \/ TabChange
  \/ SetupLiveChat
  \/ \E s \in SessionIds : MicGranted(s)
  \/ \E s \in SessionIds : OnOpen(s)
  \/ \E s \in SessionIds, m \in TurnMessages : OnMessage(s, m)
  \/ \E s \in SessionIds : OnClose(s)
  \/ StopClick

SpecTurn == InitTurn /\ [][NextTurn]_vars

(***************************************************************************)
(* The two accumulators within one session: fragments of both kinds.       *)
(***************************************************************************)
TextSessions == 1
TextLen == 2
TextTurns == 1

TextMessages == { m \in Messages : m.audio = <<>> /\ ~m.interrupted }

InitText ==
  /\ InitLive
  /\ env = Bounds(TextSessions, 0, 0, 0, TextLen, TextTurns)

NextText ==
  \/ SetupLiveChat
  \/ \E s \in SessionIds : MicGranted(s)
  \/ \E s \in SessionIds : OnOpen(s)
  \/ \E s \in SessionIds, m \in TextMessages : OnMessage(s, m)
  \/ \E s \in SessionIds : OnClose(s)
  \/ StopClick

SpecText == InitText /\ [][NextText]_vars

(***************************************************************************)
(* The capture pipeline and the transmitter.                               *)
(***************************************************************************)
CaptureSessions == 2
CaptureBlocksMax == 2

InitCapture ==
  /\ InitLive
  /\ env = Bounds(CaptureSessions, CaptureBlocksMax, 0, 0, 0, 0)

NextCapture ==
  \/ SetupLiveChat
  \/ \E s \in SessionIds : MicGranted(s)
  \/ \E s \in SessionIds : OnOpen(s)
  \/ \E s \in SessionIds : Resolve(s)
  \/ \E s \in SessionIds, b \in CaptureBlocks : OnAudioProcess(s, b)
  \/ \E s \in SessionIds, b \in CaptureBlocks : OnAudioProcessSendFails(s, b)
  \/ \E s \in SessionIds : OnError(s, "network")
  \/ \E s \in SessionIds : OnClose(s)
  \/ StopClick

SpecCapture == InitCapture /\ [][NextCapture]_vars

(***************************************************************************)
(* The playback scheduler over the lifecycle of one session.               *)
(***************************************************************************)
PlaySessions == 1
PlaySources == 2
PlayTime == 2

PlayMessages ==
  { m \in Messages : m.inT = <<>> /\ m.outT = <<>> /\ ~m.turnComplete }

InitPlay ==
  /\ InitLive
  /\ env = Bounds(PlaySessions, 0, PlaySources, PlayTime, 0, 0)

NextPlay ==
  \/ SetupLiveChat
  \/ \E s \in SessionIds : MicGranted(s)
  \/ \E s \in SessionIds : OnOpen(s)
  \/ \E s \in SessionIds, m \in PlayMessages : OnMessage(s, m)
  \/ Decoded
  \/ \E i \in DOMAIN sources : Ended(i)
  \/ \E s \in SessionIds : OnError(s, "network")
  \/ \E s \in SessionIds : OnClose(s)
  \/ StopClick
  \/ Tick

SpecPlay == InitPlay /\ [][NextPlay]_vars

(***************************************************************************)
(* The controller called directly: stop() whatever the button shows.       *)
(***************************************************************************)
ApiSessions == 2
ApiSources == 1

OneChunk ==
  { m \in PlayMessages : m.audio = encode(<< 0, 0 >>) /\ ~m.interrupted }

StopCall ==
  /\ activeTab = "LIVE_CHAT"
  /\ StopLiveChat

InitApi ==
  /\ InitLive
  /\ env = Bounds(ApiSessions, 0, ApiSources, 0, 0, 0)

NextApi ==
  \/ TabChange
  \/ SetupLiveChat
  \/ \E s \in SessionIds : MicGranted(s)
  \/ \E s \in SessionIds : OnOpen(s)
  \/ \E s \in SessionIds : Resolve(s)
  \/ \E s \in SessionIds, m \in OneChunk : OnMessage(s, m)
  \/ Decoded
  \/ \E s \in SessionIds : OnClose(s)
  \/ StopCall

SpecApi == InitApi /\ [][NextApi]_vars

(***************************************************************************)
(* The codec on its own: encode a block, decode the packet.                *)
(***************************************************************************)
InitCodec ==
  /\ InitApp
  /\ platform = Supported
  /\ activeTab = "TEXT_GENERATION"
  /\ last = [ op |-> "init", s |-> Null, threw |-> "none", m |-> NoMsg,
              text |-> "", k |-> 0, torn |-> FALSE ]
  /\ env = Bounds(0, 0, 0, 0, 0, 0)

appVars ==
  << platform, activeTab, loading, error, isLiveChatActive,
     liveChatInputTranscription, liveChatOutputTranscription, liveChatHistory,
     liveSessionPromise, nextStartTime, outputAudioSources, inputAudioContext,
     outputAudioContext, mediaStreamSource, scriptProcessorNode, sessions,
     sources, captured, decoding, now, last, env >>

\* A block of samples arrives.
CodecInput(samples, rate) ==
  /\ codec.stage = "idle"
  /\ codec' = [ stage |-> "input", samples |-> samples, rate |-> rate ]
  /\ UNCHANGED appVars

\* createPcmBlob(samples, rate).
CodecEncode ==
  /\ codec.stage = "input"
  /\ codec' = [ stage |-> "encoded", samples |-> codec.samples,
                rate |-> codec.rate,
                packet |-> createPcmBlob(codec.samples, codec.rate) ]
  /\ UNCHANGED appVars

\* decodeAudioData(decode(packet.data), ctx, rate, 1).
CodecDecode ==
  /\ codec.stage = "encoded"
  /\ codec' = [ stage |-> "decoded", samples |-> codec.samples,
                rate |-> codec.rate, packet |-> codec.packet,
                buffer |-> decodeAudioData(decode(codec.packet.data),
                                           codec.rate, OutputChannels) ]
  /\ UNCHANGED appVars

NextCodec ==
  \/ \E samples \in SampleSeqs, rate \in Rates : CodecInput(samples, rate)
  \/ CodecEncode
  \/ CodecDecode

SpecCodec == InitCodec /\ [][NextCodec]_vars

(***************************************************************************)
(* Observers used by the properties.                                       *)
(***************************************************************************)

\* The number of session.close() calls made or queued on session s.
CloseRequests(s) ==
  sessions[s].closeReq
    + Cardinality({ i \in DOMAIN sessions[s].chain :
                      sessions[s].chain[i].type = "close" })

\* The blocks the capture node of session s took while the promise of s was
\* pending, and the blocks sent on s, both in order.
EarlyBlocks(s) ==
  SelectSeq([i \in 1..Len(captured) |-> i],
            LAMBDA b : captured[b].node = s /\ captured[b].early)

SentBlocks(s) == [i \in 1..Len(sessions[s].sent) |-> sessions[s].sent[i].blk]

\* A session that is open (or opening) and was not asked to close.
Live(s) ==
  /\ sessions[s].status \in { "connecting", "open" }
  /\ CloseRequests(s) = 0

(***************************************************************************)
(* Properties.                                                             *)
(***************************************************************************)

\* C1: processing a turn-complete message appends exactly two entries to the
\* history, the user-input fragments accumulated since the previous
\* turn-complete and then the model-output fragments of that span, and
\* leaves both accumulators empty.
C1_TurnCompleteAppendsAccumulators ==
  [][ (last'.op = "message" /\ last'.m.turnComplete) =>
        /\ liveChatHistory' =
             liveChatHistory \o
               << liveChatInputTranscription \o last'.m.inT,
                  liveChatOutputTranscription \o last'.m.outT >>
        /\ liveChatInputTranscription' = <<>>
        /\ liveChatOutputTranscription' = <<>> ]_vars

\* C2: once the promise of a session has resolved, the blocks its capture
\* callback took while the promise was pending have all been sent on the
\* session, once each and in capture order.
C2_EarlyBlocksSentInOrder ==
  \A s \in SessionIds :
    sessions[s].promise = "resolved" =>
      SelectSeq(SentBlocks(s),
                LAMBDA b : captured[b].node = s /\ captured[b].early)
        = EarlyBlocks(s)

\* C3: of two chunks started in one session with no interruption or reset of
\* the cursor between them, the later one is scheduled no earlier than the
\* scheduled start of the earlier one plus its duration.
C3_NoOverlap ==
  \A i, j \in DOMAIN sources :
    ( /\ i < j
      /\ sources[i].s = sources[j].s
      /\ sources[i].cur /\ sources[j].cur ) =>
      /\ sources[j].start >= sources[i].start
      /\ sources[j].start >= sources[i].start + sources[i].dur

\* Two chunks of one span, the second queued right behind the two frames of
\* the first.
C3_Witness ==
  \E i, j \in DOMAIN sources :
    /\ i < j /\ sources[i].cur /\ sources[j].cur
    /\ sources[i].s = sources[j].s
    /\ sources[i].dur = 2
    /\ sources[j].start = sources[i].start + 2
    /\ sources[j].at < sources[j].start

\* C4: when the interruption block of the message handler has run, with or
\* without an audio chunk in the same message, the active-source set is
\* empty, every source that was in it got exactly one stop from the handler
\* (no other source got one) and nextStartTime is 0.
C4_InterruptionStopsAll ==
  [][ ( /\ last'.op \in { "message", "decoded" }
        /\ last'.threw = "none"
        /\ last'.m.interrupted ) =>
        /\ outputAudioSources' = {}
        /\ nextStartTime' = 0
        /\ \A i \in DOMAIN sources :
             sources'[i].stops =
               sources[i].stops + (IF i \in outputAudioSources THEN 1 ELSE 0)
        /\ \A i \in DOMAIN sources' \ DOMAIN sources :
             sources'[i].stops = 1 ]_vars

\* An interruption that came with an audio chunk, while one source was
\* active: both sources were stopped.
C4_Witness ==
  /\ last.op = "decoded" /\ last.threw = "none" /\ last.m.interrupted
  /\ last.k = 1
  /\ Len(sources) = 2
  /\ \A i \in DOMAIN sources : sources[i].stops = 1
  /\ outputAudioSources = {}

\* C5: whatever the order of the calls of stop(), a call raises nothing,
\* close is requested of a session at most once, and each capture node,
\* each audio context and each playback source is released or stopped at
\* most once.
C5_TeardownAtMostOnce ==
  /\ last.op = "stop" => last.threw = "none"
  /\ \A s \in SessionIds :
       /\ CloseRequests(s) <= 1
       /\ sessions[s].inClosed <= 1
       /\ sessions[s].outClosed <= 1
       /\ sessions[s].spDisc <= 1
       /\ sessions[s].msDisc <= 1
  /\ \A i \in DOMAIN sources : sources[i].stops <= 1

\* A call of stop() that found the handle already cleared by an earlier
\* stop(), before the close callback: the session is open, its resources
\* are held and a source is playing.
C5_Witness ==
  /\ last.op = "stop" /\ last.s = Null
  /\ outputAudioSources # {}
  /\ \E s \in SessionIds :
       /\ sessions[s].status = "open"
       /\ CloseRequests(s) = 1
       /\ inputAudioContext = s /\ outputAudioContext = s
       /\ scriptProcessorNode = s /\ mediaStreamSource = s

C7_CloseResetsClock == last.op = "close" => nextStartTime = 0

\* C7 (amended): the close callback leaves nextStartTime as it was; the
\* clock is 0 right after start() has begun.
C7_CloseKeepsClock ==
  [][ /\ last'.op = "close" => nextStartTime' = nextStartTime
      /\ last'.op = "start" => nextStartTime' = 0 ]_vars

\* A start() after a session that played a chunk and was closed with the
\* clock past 0.
C7_Witness ==
  /\ last.op = "start" /\ last.s = 2
  /\ sessions[1].status = "closed"
  /\ \E i \in DOMAIN sources : sources[i].s = 1 /\ sources[i].dur > 0
  /\ nextStartTime = 0

\* C8: decoding, with one channel, the packet made of a sequence of samples
\* of [-1, 1] gives a sequence of the same length, each element within
\* 1/32768 of the original.
C8_RoundTrip ==
  codec.stage = "decoded" =>
    /\ codec.buffer.ok
    /\ Len(codec.buffer.channels[1]) = Len(codec.samples)
    /\ \A i \in DOMAIN codec.samples :
         Abs(codec.buffer.channels[1][i] - codec.samples[i]) <= SubSteps

\* C9: at most one session is open (or opening) without having been asked
\* to close.
C9_AtMostOneLiveSession ==
  Cardinality({ s \in SessionIds : Live(s) }) <= 1

\* C10: the error callback puts a message holding the error text in the
\* error slot, clears the active and loading flags, and opens no session.
C10_ErrorSurfaced ==
  [][ last'.op = "error" =>
        /\ Len(error') = 2
        /\ error'[2] = last'.text
        /\ ~isLiveChatActive'
        /\ ~loading'
        /\ sessions' = sessions ]_vars

\* The error callback of an open session that was capturing.
C10_Witness ==
  /\ last.op = "error" /\ last.text = "quota"
  /\ sessions[last.s].status = "open"
  /\ scriptProcessorNode = last.s
  /\ error = << "Live session error: ", "quota" >>

\* C11: when the platform has no audio capture, or the microphone is
\* denied, start() opens no session (the handle and the session records of
\* the other invocations are as they were, the failed invocation never
\* connects), makes no capture wiring, puts a message in the error slot and
\* leaves the active and loading flags false.
C11_CaptureUnavailable ==
  [][ ( \/ last'.op = "denied"
        \/ last'.op = "start" /\ ~platform.mediaDevices ) =>
        /\ error' # NoError
        /\ ~isLiveChatActive'
        /\ ~loading'
        /\ liveSessionPromise' = liveSessionPromise
        /\ inputAudioContext' = inputAudioContext
        /\ outputAudioContext' = outputAudioContext
        /\ mediaStreamSource' = mediaStreamSource
        /\ scriptProcessorNode' = scriptProcessorNode
        /\ Len(sessions') = Len(sessions)
        /\ \A s \in SessionIds :
             \/ sessions'[s] = sessions[s]
             \/ /\ last'.op = "denied" /\ last'.s = s
                /\ sessions[s].status = "mic"
                /\ sessions'[s] = [sessions[s] EXCEPT !.status = "failed"] ]_vars

\* The microphone was denied to the only invocation of start().
C11_Witness ==
  /\ last.op = "denied"
  /\ sessions[last.s].status = "failed"
  /\ sessions[last.s].promise = "none"
  /\ error = << "Failed to access microphone or set up live chat: ",
                "Permission denied" >>
  /\ liveSessionPromise = Null

(***************************************************************************)
(* The connection attempt, with the progress the runtime guarantees: the   *)
(* request for the microphone is answered, and the call of ai.live.connect *)
(* returns once the open callback has run.  Nothing guarantees a callback  *)
(* after a rejection, nor a click of the user.                             *)
(***************************************************************************)
ConnectSessions == 2

InitConnect ==
  /\ InitLive
  /\ env = Bounds(ConnectSessions, 0, 0, 0, 0, 0)

NextConnect ==
  \/ SetupLiveChat
  \/ \E s \in SessionIds : MicGranted(s)
  \/ \E s \in SessionIds : MicDenied(s)
  \/ \E s \in SessionIds : OnOpen(s)
  \/ \E s \in SessionIds : Resolve(s)
  \/ \E s \in SessionIds : Reject(s)
  \/ \E s \in SessionIds : OnError(s, "network")
  \/ \E s \in SessionIds : OnClose(s)
  \/ StopClick

\* The close callback of a session on which session.close() was called.
CloseDelivered(s) ==
  /\ sessions[s].closeReq > 0
  /\ OnClose(s)

SpecConnect ==
  /\ InitConnect
  /\ [][NextConnect]_vars
  /\ WF_vars(\E s \in SessionIds : MicGranted(s) \/ MicDenied(s))
  /\ WF_vars(\E s \in SessionIds : Resolve(s))
  /\ WF_vars(\E s \in SessionIds : CloseDelivered(s))

\* The capture node and the two audio contexts made for session s are
\* released: the node is not processed any more, the contexts are closed.
Released(s) ==
  /\ s \in SessionIds
  /\ sessions[s].node # "on"
  /\ sessions[s].inClosed > 0
  /\ sessions[s].outClosed > 0

\* C12: when the promise of ai.live.connect rejects before the open
\* callback, eventually the error slot holds a message, the loading flag is
\* cleared and the active flag is false.
C12_OpenFailureSurfaced ==
  (last.op = "reject") ~>
    (error # NoError /\ ~loading /\ ~isLiveChatActive)

\* C13: stop() on an open session clears the active flag in the step that
\* requests the close and touches no capture or playback resource; with the
\* promise resolving and the close callback delivered, the capture node and
\* the audio contexts of that session are eventually released.
C13_StopThenRelease ==
  /\ [][ \A s \in SessionIds :
           ( /\ last'.op = "stop" /\ last'.s = s
             /\ sessions[s].status = "open" ) =>
             /\ ~isLiveChatActive'
             /\ CloseRequests(s)' = CloseRequests(s) + 1
             /\ UNCHANGED << inputAudioContext, outputAudioContext,
                             mediaStreamSource, scriptProcessorNode,
                             playVars >>
             /\ sessions'[s].node = sessions[s].node
             /\ sessions'[s].inClosed = sessions[s].inClosed
             /\ sessions'[s].outClosed = sessions[s].outClosed ]_vars
  /\ \A s \in 1..ConnectSessions :
       (last.op = "stop" /\ last.s = s /\ sessions[s].status = "open")
         ~> Released(s)

\* C14: the active-source set holds exactly the sources that were started
\* and have neither ended nor been stopped.
C14_ActiveSetExact ==
  outputAudioSources =
    { i \in DOMAIN sources : ~sources[i].ended /\ sources[i].stops = 0 }

\* One source played to its end and left the set; a second one is pending
\* in it.
C14_Witness ==
  /\ Len(sources) = 2
  /\ sources[1].ended /\ sources[1].stops = 0
  /\ ~sources[2].ended /\ sources[2].stops = 0
  /\ outputAudioSources = { 2 }

\* C15: every source is started at a time that is at least the clock of the
\* playback context read for its chunk (line 538) and at least the value the
\* cursor held before the chunk was processed; floor is the larger of the
\* two.
C15_NeverInThePast ==
  \A i \in DOMAIN sources : sources[i].start >= sources[i].floor

\* C16: from the close callback of a session until the next open callback,
\* no capture callback fires and no block is sent on any session.
C16_QuietAfterTeardown ==
  [][ last.torn =>
        /\ last'.op # "capture"
        /\ \A s \in SessionIds : sessions'[s].sent = sessions[s].sent ]_vars

\* C17: a send that fails on the open session is surfaced in the error slot
\* and leaves the session, the capture pipeline and the playback state as
\* they were.
C17_SendFailureSurfaced ==
  [][ (last'.op = "capture" /\ last'.threw = "send failed") =>
        /\ error' # NoError
        /\ sessions' = sessions
        /\ UNCHANGED << refVars, playVars >> ]_vars

\* C18: a message without the turn-complete flag appends its input fragment
\* to the end of the input accumulator and its output fragment to the end of
\* the output accumulator; an accumulator whose fragment is absent is left as
\* it was.
C18_FragmentsAppendInOrder ==
  [][ (last'.op = "message" /\ ~last'.m.turnComplete) =>
        /\ liveChatInputTranscription' =
             liveChatInputTranscription \o last'.m.inT
        /\ liveChatOutputTranscription' =
             liveChatOutputTranscription \o last'.m.outT ]_vars

\* An input fragment has been appended behind an earlier one while the output
\* accumulator, holding a fragment of its own, stayed as it was.
C18_Witness ==
  /\ last.op = "message"
  /\ last.m.inT = << "b" >>
  /\ last.m.outT = <<>>
  /\ liveChatInputTranscription = << "a", "b" >>
  /\ liveChatOutputTranscription = << "b" >>

\* C19: start() and the reset of a tab change leave the turn history empty;
\* every other step leaves a history of which the earlier one is a prefix.
C19_HistoryAppendOnly ==
  [][ /\ last'.op \in { "start", "reset" } => liveChatHistory' = <<>>
      /\ last'.op \notin { "start", "reset" } =>
            /\ Len(liveChatHistory) <= Len(liveChatHistory')
            /\ SubSeq(liveChatHistory', 1, Len(liveChatHistory))
                 = liveChatHistory ]_vars

\* A second turn-complete message has appended its entries behind those of
\* the first.
C19_Witness ==
  /\ last.op = "message"
  /\ last.m.turnComplete
  /\ Len(liveChatHistory) = 4

\* C20: a message with an audio chunk (and no interruption flag) handled
\* while the ref of the playback context is null raises nothing, leaves the
\* cursor, the active set and the sources as they were and suspends no
\* decode.
C20_ChunkWithoutContextIsNoOp ==
  [][ ( /\ last'.op = "message"
        /\ last'.m.audio # <<>>
        /\ ~last'.m.interrupted
        /\ outputAudioContext = Null ) =>
        /\ last'.threw = "none"
        /\ UNCHANGED playVars
        /\ decoding' = decoding ]_vars

\* Such a message was handled on a session that is still open: the playback
\* context is gone and nothing was suspended or started.
C20_Witness ==
  /\ last.op = "message"
  /\ last.m.audio # <<>>
  /\ ~last.m.interrupted
  /\ last.threw = "none"
  /\ last.s \in SessionIds
  /\ sessions[last.s].status = "open"
  /\ outputAudioContext = Null
  /\ decoding = <<>>
  /\ sources = <<>>

\* C21: once the error callback of a session that had opened has been
\* processed, its capture node is disconnected, both of its audio contexts
\* are closed and the active set is empty, without waiting for a close
\* callback.
C21_ErrorReleasesResources ==
  \A s \in SessionIds :
    (last.op = "error" /\ last.s = s /\ sessions[s].opened) =>
      /\ Released(s)
      /\ outputAudioSources = {}

\* C22: when the handler resumes on a chunk with an odd number of bytes, no
\* source is made, the sessions and the capture wiring stay as they were and
\* the rest of the message is still processed: with the interruption flag
\* the active sources are stopped, the set is emptied and the cursor is 0;
\* without it the set and the sources are unchanged.
C22_MalformedChunkNonFatal ==
  [][ ( /\ last'.op = "decoded"
        /\ Len(decode(last'.m.audio)) % 2 # 0 ) =>
        /\ Len(sources') = Len(sources)
        /\ sessions' = sessions
        /\ UNCHANGED refVars
        /\ IF last'.m.interrupted
           THEN /\ outputAudioSources' = {}
                /\ nextStartTime' = 0
                /\ \A i \in DOMAIN sources :
                     sources'[i].stops =
                       sources[i].stops
                         + (IF i \in outputAudioSources THEN 1 ELSE 0)
           ELSE /\ outputAudioSources' = outputAudioSources
                /\ sources' = sources ]_vars

\* C23: the 'ended' notification of a source leaves the active set as it was
\* without that source, whether or not an interruption or a close had
\* removed it before; an interruption or a close handled after a source has
\* ended does not stop that source again and leaves it out of the set.
\* Neither raises an error.
C23_RemovalIdempotent ==
  [][ /\ \A i \in DOMAIN sources :
           (~sources[i].ended /\ sources'[i].ended) =>
             /\ outputAudioSources' = outputAudioSources \ { i }
             /\ last'.threw = "none"
      /\ ( \/ last'.op = "close"
           \/ /\ last'.op \in { "message", "decoded" }
              /\ last'.m.interrupted
              /\ last'.threw = "none" ) =>
             \A i \in DOMAIN sources :
               sources[i].ended =>
                 /\ sources'[i].stops = sources[i].stops
                 /\ i \notin outputAudioSources' ]_vars

\* Source 1 played to its end; a bulk removal then stopped source 2 only;
\* the 'ended' notification of source 2 came after that removal.
C23_Witness ==
  /\ last.op = "ended"
  /\ Len(sources) = 2
  /\ sources[1].ended /\ sources[1].stops = 0
  /\ sources[2].ended /\ sources[2].stops = 1
  /\ outputAudioSources = {}

\* C24: the packet made of a block of samples of [-1, 1] holds one 16-bit
\* integer per sample, in the order of the samples: the sample times 32768
\* truncated toward zero, with 32768 (the sample 1.0) wrapped to -32768 and
\* nothing clamped; its MIME string is audio/pcm;rate= followed by the rate.
C24_EncodeWraps ==
  codec.stage \in { "encoded", "decoded" } =>
    LET ints == BytesInt16(decode(codec.packet.data))
    IN /\ Len(ints) = Len(codec.samples)
       /\ \A i \in DOMAIN codec.samples :
            LET n == codec.samples[i]
                t == IF n >= 0 THEN n \div SubSteps
                     ELSE -((-n) \div SubSteps)
            IN ints[i] = IF t = 32768 THEN -32768 ELSE t
       /\ codec.packet.mimeType = << "audio/pcm;rate=", codec.rate >>

\* The block (1.0, -0.5/32768) was encoded as (-32768, 0).
C24_Witness ==
  /\ codec.stage = "encoded"
  /\ codec.samples = << SampleUnit, -1 >>
  /\ BytesInt16(decode(codec.packet.data)) = << -32768, 0 >>

\* C25: the close callback of a stopped session leaves every later session
\* alone: it does not disconnect or close what that session made, does not
\* null a ref that holds it and does not clear the active flag while it is
\* open.
C25_StaleCloseSparesLater ==
  [][ \A s, t \in SessionIds :
        ( /\ last'.op = "close" /\ last'.s = s
          /\ CloseRequests(s) > 0
          /\ s < t ) =>
          /\ sessions'[t] = sessions[t]
          /\ inputAudioContext = t => inputAudioContext' = t
          /\ outputAudioContext = t => outputAudioContext' = t
          /\ mediaStreamSource = t => mediaStreamSource' = t
          /\ scriptProcessorNode = t => scriptProcessorNode' = t
          /\ sessions[t].status = "open" =>
                isLiveChatActive' = isLiveChatActive ]_vars

\* C26: whenever a capture callback fires, the session handle is not null
\* and the callback raises no TypeError.
C26_CaptureHandleNonNull ==
  [][ last'.op = "capture" =>
        /\ liveSessionPromise # Null
        /\ last'.threw # "TypeError" ]_vars

\* C27: while the active flag is true, the session handle and the refs of
\* the capture and the playback context are not null.
C27_ActiveImpliesHandles ==
  isLiveChatActive =>
    /\ liveSessionPromise # Null
    /\ inputAudioContext # Null
    /\ outputAudioContext # Null

\* C28: a handler that was suspended at the await when an interruption was
\* processed starts no source and adds none to the active set when it
\* resumes.
C28_InterruptionCancelsEarlier ==
  [][ ( /\ last'.op = "decoded"
        /\ decoding # <<>>
        /\ Head(decoding).cut ) =>
        /\ Len(sources') = Len(sources)
        /\ outputAudioSources' \subseteq outputAudioSources ]_vars

\* C29: every block handed to the send was sent on the session whose open
\* callback made the capture node that took it, and no block is sent twice.
C29_BlockSentOnOwnSession ==
  /\ \A s \in SessionIds :
       \A k \in DOMAIN sessions[s].sent :
         captured[sessions[s].sent[k].blk].node = s
  /\ \A s, t \in SessionIds :
       \A j \in DOMAIN sessions[s].sent, k \in DOMAIN sessions[t].sent :
         sessions[s].sent[j].blk = sessions[t].sent[k].blk =>
           (s = t /\ j = k)

\* C30: the turn history always has an even length, and a turn-complete
\* message (carrying no fragment of its own) leaves the user-input text of
\* the turn at the last but one place and the model-output text at the last
\* place.
C30_HistoryParity ==
  [][ /\ Len(liveChatHistory') % 2 = 0
      /\ ( /\ last'.op = "message"
           /\ last'.m.turnComplete
           /\ last'.m.inT = <<>>
           /\ last'.m.outT = <<>> ) =>
           LET n == Len(liveChatHistory')
           IN /\ n >= 2
              /\ liveChatHistory'[n - 1] = liveChatInputTranscription
              /\ liveChatHistory'[n] = liveChatOutputTranscription ]_vars

=============================================================================
